---- MODULE Spec2Model ----
(***************************************************************************)
(* RealNVP bijector of sac/distributions/real_nvp_bijector.py:             *)
(* CouplingBijector (one affine coupling layer) and RealNVPBijector (a     *)
(* stack of coupling layers), with their four operations forward,          *)
(* forward_log_det_jacobian, inverse and inverse_log_det_jacobian.         *)
(*                                                                         *)
(* Numbers are exact extended rationals <<n, d>>: d > 0 is the rational    *)
(* n/d in lowest terms, <<1,0>> is +Inf, <<-1,0>> is -Inf and <<0,0>> is   *)
(* NaN.  Scale values are counted in units of ln 2, so that tf.exp is the  *)
(* exact map s |-> 2^s on the integers, with float32's overflow to +Inf    *)
(* and underflow to 0.  A tensor of shape [batch, D] is modelled by one    *)
(* batch element, a sequence of D numbers; Python's x[:, j] is x[j + 1].   *)
(*                                                                         *)
(* The scale and translation networks are arbitrary functions: a value is  *)
(* chosen the first time a network is evaluated at an input and is kept in *)
(* scale_net / translation_net, so every later evaluation of the same      *)
(* network at the same input returns the same value.                       *)
(***************************************************************************)
EXTENDS Integers, Sequences, FiniteSets, TLC

VARIABLES
    bijector,          \* the constructed CouplingBijector or RealNVPBijector
    x,                 \* the input vector of the calls
    condition_kwargs,  \* <<>> (no keyword given) or the observations vector
    scale_net,         \* scale networks: <<scope, input>> -> output so far
    translation_net,   \* translation networks, likewise
    fwd,               \* outcome of forward(x)
    fldj,              \* outcome of forward_log_det_jacobian(x)
    inv,               \* outcome of inverse(arg)
    ildj,              \* outcome of inverse_log_det_jacobian(arg)
    default_config,    \* the module's dict DEFAULT_CONFIG
    flows,             \* the flows constructed so far, with their config
    masks              \* the results of the calls of get_mask so far

vars == <<bijector, x, condition_kwargs, scale_net, translation_net,
          fwd, fldj, inv, ildj, default_config, flows, masks>>

---------------------------------------------------------------------------
(* Bounds of the model.                                                    *)

MaxLayers == 2

\* The most flows constructed one after the other.
MaxFlows == 2

\* The widest input of a stand-alone layer has 2 * MaxHalfWidth coordinates.
MaxHalfWidth == 2

\* The most calls of get_mask recorded.
MaxMaskCalls == 2

---------------------------------------------------------------------------
(* Extended rational arithmetic.                                           *)

R(n) == <<n, 1>>
NaN == <<0, 0>>
PosInf == <<1, 0>>
NegInf == <<-1, 0>>

Abs(n) == IF n < 0 THEN -n ELSE n
Sign(n) == IF n < 0 THEN -1 ELSE IF n > 0 THEN 1 ELSE 0

RECURSIVE GCD(_, _)
GCD(a, b) == IF b = 0 THEN a ELSE GCD(b, a % b)

Norm(n, d) ==
    IF d = 0 THEN <<Sign(n), 0>>
    ELSE LET g == GCD(Abs(n), Abs(d))
         IN  <<(Sign(d) * n) \div g, Abs(d) \div g>>

IsFinite(a) == a[2] # 0

Neg(a) == <<-a[1], a[2]>>

Add(a, b) ==
    IF a[2] = 0 /\ b[2] = 0
    THEN (IF a[1] = b[1] THEN a ELSE NaN)
    ELSE Norm(a[1] * b[2] + b[1] * a[2], a[2] * b[2])

Sub(a, b) == Add(a, Neg(b))

Mul(a, b) == Norm(a[1] * b[1], a[2] * b[2])

RECURSIVE Pow2(_)
Pow2(k) == IF k = 0 THEN 1 ELSE 2 * Pow2(k - 1)

\* float32: 2^128 overflows to +Inf, 2^-150 rounds to 0.
FloatMaxExp == 128
FloatMinExp == -150

\* tf.exp on a scale counted in units of ln 2.
Exp(s) ==
    CASE s = NaN -> NaN
      [] s = PosInf -> PosInf
      [] s = NegInf -> R(0)
      [] s[2] = 1 /\ s[1] >= FloatMaxExp -> PosInf
      [] s[2] = 1 /\ s[1] <= FloatMinExp -> R(0)
      [] s[2] = 1 /\ s[1] >= 0 /\ s[1] < FloatMaxExp -> <<Pow2(s[1]), 1>>
      [] s[2] = 1 /\ s[1] < 0 /\ s[1] > FloatMinExp -> <<1, Pow2(-s[1])>>

\* Elementwise product of two tensors of the same shape.
VMul(a, b) == [i \in 1..Len(a) |-> Mul(a[i], b[i])]

RECURSIVE SumFrom(_, _)
SumFrom(v, i) == IF i > Len(v) THEN R(0) ELSE Add(v[i], SumFrom(v, i + 1))

\* tf.reduce_sum over every axis but the batch axis.
reduce_sum(v) == SumFrom(v, 1)

\* The static shape of a tensor: the batch of one element that a sequence
\* of D numbers models has shape [1, D], a number per batch element [1].
TensorShape(v) == <<1, Len(v)>>

\* axis=tuple(range(1, len(x.shape))): every axis but the batch axis.
AxesAfterBatch(shape) == 1..(Len(shape) - 1)

\* The shape tf.reduce_sum returns for a tensor of that shape summed over
\* those axes.
RECURSIVE DropAxes(_, _, _)
DropAxes(shape, axes, i) ==
    IF i > Len(shape) THEN <<>>
    ELSE (IF (i - 1) \in axes THEN <<>> ELSE <<shape[i]>>)
         \o DropAxes(shape, axes, i + 1)

reduce_sum_shape(shape, axes) == DropAxes(shape, axes, 1)

\* tf.check_numerics: TRUE when the tensor holds no NaN and no Inf.
check_numerics(v) == \A i \in 1..Len(v) : IsFinite(v[i])

Reverse(s) == [i \in 1..Len(s) |-> s[Len(s) + 1 - i]]

---------------------------------------------------------------------------
(* checkerboard and the networks.                                          *)

RECURSIVE Prod(_, _)
Prod(shape, i) == IF i > Len(shape) THEN 1 ELSE shape[i] * Prod(shape, i + 1)

\* checkerboard with the units of the two parities exchanged.
checkerboard_UnitsExchanged(shape, parity) ==
    LET unit == IF parity = "even" THEN <<FALSE, TRUE>> ELSE <<TRUE, FALSE>>
        tiled == [i \in 1..(2 * (Prod(shape, 1) \div 2)) |->
                     unit[((i - 1) % 2) + 1]]
    IN  [i \in 1..Len(tiled) |-> IF tiled[i] THEN R(1) ELSE R(0)]

\* checkerboard(shape, parity, dtype): the unit (True, False) or
\* (False, True) tiled prod(shape) // 2 times, cast to the numbers 1 and 0.
checkerboard(shape, parity) ==
    LET unit == IF parity = "even" THEN <<TRUE, FALSE>> ELSE <<FALSE, TRUE>>
        tiled == [i \in 1..(2 * (Prod(shape, 1) \div 2)) |->
                     unit[((i - 1) % 2) + 1]]
    IN  [i \in 1..Len(tiled) |-> IF tiled[i] THEN R(1) ELSE R(0)]

\* get_mask: the checkerboard over the dimensions after the batch axis.
get_mask(layer, v) == checkerboard(<<Len(v)>>, layer.parity)

\* The functions RealNVPBijector.build hands to its layers take the
\* observations as a required argument; a function given to a stand-alone
\* CouplingBijector ("callable") takes whatever keywords it is called with.
Wrappers == {"translation_wrapper", "scale_wrapper"}

\* MissingArgument for functions whose observations argument is optional.
MissingArgument_Never(fn, kwargs) == FALSE

\* TRUE when calling fn(masked, **condition_kwargs) raises TypeError.
MissingArgument(fn, kwargs) == fn \in Wrappers /\ kwargs = <<>>

\* feedforward_net on tf.concat((inputs, observations)) inside the
\* variable scope of the layer: the stored value, or the fresh one when
\* the network has not been evaluated at this input before.
feedforward_net(net, scope, inputs, fresh) ==
    IF <<scope, inputs>> \in DOMAIN net THEN net[<<scope, inputs>>] ELSE fresh

Evaluated(net, scope, inputs, fresh) ==
    IF <<scope, inputs>> \in DOMAIN net THEN net
    ELSE net @@ (<<scope, inputs>> :> fresh)

Raise(error, env) == [status |-> error, value |-> <<>>, env |-> env]
Return(value, env) == [status |-> "ok", value |-> value, env |-> env]

---------------------------------------------------------------------------
(* CouplingBijector.                                                       *)

CouplingBijector(parity, translation_fn, scale_fn, validate_args, name) ==
    [parity |-> parity, translation_fn |-> translation_fn,
     scale_fn |-> scale_fn, validate_args |-> validate_args, name |-> name]

\* maybe_assert_valid_x ignoring validate_args.
maybe_assert_valid_x_NeverRaises(self, v) == [status |-> "ok", value |-> v]

\* _maybe_assert_valid_x and _maybe_assert_valid_y, the same in both
\* classes: the argument is returned unless validate_args is set.
maybe_assert_valid_x(self, v) ==
    IF ~self.validate_args THEN [status |-> "ok", value |-> v]
    ELSE [status |-> "NotImplementedError", value |-> <<>>]

maybe_assert_valid_y(self, v) ==
    IF ~self.validate_args THEN [status |-> "ok", value |-> v]
    ELSE [status |-> "NotImplementedError", value |-> <<>>]

\* masked_x = x * mask
Masked(self, v) == VMul(v, get_mask(self, v))

\* scale = mask * self.scale_fn(masked, **condition_kwargs)
CouplingScale(self, v, kwargs, env, fresh) ==
    VMul(get_mask(self, v),
         feedforward_net(env.scale, self.name, Masked(self, v) \o kwargs,
                         fresh.scale))

\* translation = mask * self.translation_fn(masked, **condition_kwargs)
CouplingTranslation(self, v, kwargs, env, fresh) ==
    VMul(get_mask(self, v),
         feedforward_net(env.translation, self.name,
                         Masked(self, v) \o kwargs, fresh.translation))

ScaleEvaluated(self, v, kwargs, env, fresh) ==
    [env EXCEPT !.scale = Evaluated(env.scale, self.name,
        Masked(self, v) \o kwargs, fresh.scale)]

BothEvaluated(self, v, kwargs, env, fresh) ==
    [scale |-> Evaluated(env.scale, self.name,
        Masked(self, v) \o kwargs, fresh.scale),
     translation |-> Evaluated(env.translation, self.name,
        Masked(self, v) \o kwargs, fresh.translation)]

\* CouplingForward reading scale and translation at the index of the
\* coordinate it transforms.
CouplingForward_OwnIndex(self, v, kwargs, env, fresh) ==
    IF maybe_assert_valid_x(self, v).status # "ok"
    THEN Raise("NotImplementedError", env)
    ELSE IF MissingArgument(self.scale_fn, kwargs)
            \/ MissingArgument(self.translation_fn, kwargs)
    THEN Raise("TypeError", env)
    ELSE LET scale == CouplingScale(self, v, kwargs, env, fresh)
             translation == CouplingTranslation(self, v, kwargs, env, fresh)
             exp_scale == [i \in 1..Len(scale) |-> Exp(scale[i])]
             env2 == BothEvaluated(self, v, kwargs, env, fresh)
         IN  IF ~check_numerics(exp_scale)
             THEN Raise("InvalidArgumentError", env2)
             ELSE IF self.parity = "odd"
             THEN Return(<<Add(Mul(v[1], exp_scale[1]), translation[1]),
                           v[2]>>, env2)
             ELSE Return(<<v[1],
                           Add(Mul(v[2], exp_scale[2]), translation[2])>>,
                         env2)

\* CouplingForward without tf.check_numerics.
CouplingForward_Unchecked(self, v, kwargs, env, fresh) ==
    IF maybe_assert_valid_x(self, v).status # "ok"
    THEN Raise("NotImplementedError", env)
    ELSE IF MissingArgument(self.scale_fn, kwargs)
            \/ MissingArgument(self.translation_fn, kwargs)
    THEN Raise("TypeError", env)
    ELSE LET scale == CouplingScale(self, v, kwargs, env, fresh)
             translation == CouplingTranslation(self, v, kwargs, env, fresh)
             exp_scale == [i \in 1..Len(scale) |-> Exp(scale[i])]
             env2 == BothEvaluated(self, v, kwargs, env, fresh)
         IN  IF self.parity = "odd"
             THEN Return(<<Add(Mul(v[1], exp_scale[2]), translation[2]),
                           v[2]>>, env2)
             ELSE Return(<<v[1],
                           Add(Mul(v[2], exp_scale[1]), translation[1])>>,
                         env2)

CouplingForward(self, v, kwargs, env, fresh) ==
    IF maybe_assert_valid_x(self, v).status # "ok"
    THEN Raise("NotImplementedError", env)
    ELSE IF MissingArgument(self.scale_fn, kwargs)
            \/ MissingArgument(self.translation_fn, kwargs)
    THEN Raise("TypeError", env)
    ELSE LET scale == CouplingScale(self, v, kwargs, env, fresh)
             translation == CouplingTranslation(self, v, kwargs, env, fresh)
             exp_scale == [i \in 1..Len(scale) |-> Exp(scale[i])]
             env2 == BothEvaluated(self, v, kwargs, env, fresh)
         IN  IF ~check_numerics(exp_scale)
             THEN Raise("InvalidArgumentError", env2)
             ELSE IF self.parity = "odd"
             THEN Return(<<Add(Mul(v[1], exp_scale[2]), translation[2]),
                           v[2]>>, env2)
             ELSE Return(<<v[1],
                           Add(Mul(v[2], exp_scale[1]), translation[1])>>,
                         env2)

\* CouplingForwardLogDetJacobian summing the scale network's output without
\* the mask.
CouplingForwardLogDetJacobian_Unmasked(self, v, kwargs, env, fresh) ==
    IF maybe_assert_valid_x(self, v).status # "ok"
    THEN Raise("NotImplementedError", env)
    ELSE IF MissingArgument(self.scale_fn, kwargs)
    THEN Raise("TypeError", env)
    ELSE Return(reduce_sum(feedforward_net(env.scale, self.name,
                               Masked(self, v) \o kwargs, fresh.scale)),
                ScaleEvaluated(self, v, kwargs, env, fresh))

CouplingForwardLogDetJacobian(self, v, kwargs, env, fresh) ==
    IF maybe_assert_valid_x(self, v).status # "ok"
    THEN Raise("NotImplementedError", env)
    ELSE IF MissingArgument(self.scale_fn, kwargs)
    THEN Raise("TypeError", env)
    ELSE Return(reduce_sum(CouplingScale(self, v, kwargs, env, fresh)),
                ScaleEvaluated(self, v, kwargs, env, fresh))

\* CouplingInverse multiplying by exp(scale) where the code has exp(-scale).
CouplingInverse_ExpNotNegated(self, v, kwargs, env, fresh) ==
    IF maybe_assert_valid_y(self, v).status # "ok"
    THEN Raise("NotImplementedError", env)
    ELSE IF MissingArgument(self.scale_fn, kwargs)
            \/ MissingArgument(self.translation_fn, kwargs)
    THEN Raise("TypeError", env)
    ELSE LET scale == CouplingScale(self, v, kwargs, env, fresh)
             translation == CouplingTranslation(self, v, kwargs, env, fresh)
             env2 == BothEvaluated(self, v, kwargs, env, fresh)
         IN  IF self.parity = "odd"
             THEN Return(<<Mul(Sub(v[1], translation[2]), Exp(scale[2])),
                           v[2]>>, env2)
             ELSE Return(<<v[1],
                           Mul(Sub(v[2], translation[1]), Exp(scale[1]))>>,
                         env2)

\* CouplingInverse with the finiteness check of _forward on exp(-scale).
CouplingInverse_Checked(self, v, kwargs, env, fresh) ==
    IF maybe_assert_valid_y(self, v).status # "ok"
    THEN Raise("NotImplementedError", env)
    ELSE IF MissingArgument(self.scale_fn, kwargs)
            \/ MissingArgument(self.translation_fn, kwargs)
    THEN Raise("TypeError", env)
    ELSE LET scale == CouplingScale(self, v, kwargs, env, fresh)
             translation == CouplingTranslation(self, v, kwargs, env, fresh)
             exp_scale == [i \in 1..Len(scale) |-> Exp(Neg(scale[i]))]
             env2 == BothEvaluated(self, v, kwargs, env, fresh)
         IN  IF ~check_numerics(exp_scale)
             THEN Raise("InvalidArgumentError", env2)
             ELSE IF self.parity = "odd"
             THEN Return(<<Mul(Sub(v[1], translation[2]), exp_scale[2]),
                           v[2]>>, env2)
             ELSE Return(<<v[1],
                           Mul(Sub(v[2], translation[1]), exp_scale[1])>>,
                         env2)

CouplingInverse(self, v, kwargs, env, fresh) ==
    IF maybe_assert_valid_y(self, v).status # "ok"
    THEN Raise("NotImplementedError", env)
    ELSE IF MissingArgument(self.scale_fn, kwargs)
            \/ MissingArgument(self.translation_fn, kwargs)
    THEN Raise("TypeError", env)
    ELSE LET scale == CouplingScale(self, v, kwargs, env, fresh)
             translation == CouplingTranslation(self, v, kwargs, env, fresh)
             env2 == BothEvaluated(self, v, kwargs, env, fresh)
         IN  IF self.parity = "odd"
             THEN Return(<<Mul(Sub(v[1], translation[2]), Exp(Neg(scale[2]))),
                           v[2]>>, env2)
             ELSE Return(<<v[1],
                           Mul(Sub(v[2], translation[1]), Exp(Neg(scale[1])))>>,
                         env2)

\* CouplingInverseLogDetJacobian without the sign change.
CouplingInverseLogDetJacobian_NotNegated(self, v, kwargs, env, fresh) ==
    IF maybe_assert_valid_y(self, v).status # "ok"
    THEN Raise("NotImplementedError", env)
    ELSE IF MissingArgument(self.scale_fn, kwargs)
    THEN Raise("TypeError", env)
    ELSE Return(reduce_sum(CouplingScale(self, v, kwargs, env, fresh)),
                ScaleEvaluated(self, v, kwargs, env, fresh))

CouplingInverseLogDetJacobian(self, v, kwargs, env, fresh) ==
    IF maybe_assert_valid_y(self, v).status # "ok"
    THEN Raise("NotImplementedError", env)
    ELSE IF MissingArgument(self.scale_fn, kwargs)
    THEN Raise("TypeError", env)
    ELSE Return(Neg(reduce_sum(CouplingScale(self, v, kwargs, env, fresh))),
                ScaleEvaluated(self, v, kwargs, env, fresh))

---------------------------------------------------------------------------
(* Inputs of the model.                                                    *)

Parities == {"even", "odd"}

\* Partial configurations handed to RealNVPBijector.
Configs ==
    {[num_coupling_layers |-> n] : n \in 1..MaxLayers}
    \cup {[scale_regularization |-> 0]}

\* Width-2 inputs.
Inputs == {<<R(1), R(2)>>, <<R(-3), R(5)>>}

\* condition_kwargs: none, or observations of width 1.
Conditions == {<<>>, <<R(7)>>}

\* Values a scale and a translation network return at a fresh input.  A
\* layer uses the entry at the index its mask keeps and multiplies the other
\* entry by 0, so that a layer of parity "even" sees, in turn: ln 2 with no
\* translation, a finite scale and translation, a scale whose exp
\* overflows, and minus infinity; and a layer of parity "odd": zero scale
\* and translation, a finite scale and translation, a scale whose exp
\* underflows, and an overflow next to the NaN that 0 * -Inf is.
NetOutputs ==
    {[scale |-> <<R(1), R(0)>>, translation |-> <<R(0), R(0)>>],
     [scale |-> <<R(-1), R(2)>>, translation |-> <<R(3), R(-1)>>],
     [scale |-> <<R(150), R(-150)>>, translation |-> <<R(1), R(1)>>],
     [scale |-> <<NegInf, R(150)>>, translation |-> <<R(1), R(1)>>]}

---------------------------------------------------------------------------
(* RealNVPBijector.                                                        *)

DEFAULT_CONFIG ==
    [num_coupling_layers |-> 2, translation_hidden_sizes |-> <<25>>,
     scale_hidden_sizes |-> <<25>>, scale_regularization |-> 500]

\* dict(DEFAULT_CONFIG, **(config or {}))
MergeConfig(defaults, config) ==
    [k \in DOMAIN defaults \cup DOMAIN config |->
        IF k \in DOMAIN config THEN config[k] ELSE defaults[k]]

\* LayerParity counting the layers from zero.
LayerParity_FromZero(i) == <<"even", "odd">>[((i - 1) % 2) + 1]

\* LayerParity giving every layer the same parity.
LayerParity_AllOdd(i) == <<"even", "odd">>[2]

\* parity=("even", "odd")[i % 2]
LayerParity(i) == <<"even", "odd">>[(i % 2) + 1]

\* name="coupling_{i}".format(i=i)
LayerName(i) == "coupling_" \o ToString(i)

\* build: the layers for i in range(1, num_coupling_layers + 1)
build(config) ==
    [i \in 1..config.num_coupling_layers |->
        CouplingBijector(LayerParity(i), "translation_wrapper",
                         "scale_wrapper", FALSE, LayerName(i))]

RealNVPBijector(config, validate_args) ==
    LET merged == MergeConfig(DEFAULT_CONFIG, config)
    IN  [kind |-> "RealNVPBijector", config |-> merged,
         validate_args |-> validate_args, layers |-> build(merged)]

\* The options a caller may supply, each with a value that is not its
\* default, and the partial configs: the restrictions of Supplied to the
\* sets of options.  The empty one is config=None as well as config={}.
Supplied ==
    [num_coupling_layers |-> 1, translation_hidden_sizes |-> <<10>>,
     scale_hidden_sizes |-> <<10, 10>>, scale_regularization |-> 0]

PartialConfigs ==
    {[k \in K |-> Supplied[k]] : K \in SUBSET DOMAIN Supplied}

\* Construct merging the caller's options into DEFAULT_CONFIG itself
\* (DEFAULT_CONFIG.update(config)).
Construct_UpdatesDefaults(defaults, config, validate_args) ==
    LET merged == MergeConfig(defaults, config)
    IN  [flow |-> [kind |-> "RealNVPBijector", config |-> merged,
                   validate_args |-> validate_args,
                   layers |-> build(merged)],
         defaults |-> merged]

\* RealNVPBijector.__init__ as a step on the module's state: the flow made
\* when DEFAULT_CONFIG holds defaults, and DEFAULT_CONFIG afterwards.
\* dict(DEFAULT_CONFIG, **(config or {})) makes a new dict.
Construct(defaults, config, validate_args) ==
    LET merged == MergeConfig(defaults, config)
    IN  [flow |-> [kind |-> "RealNVPBijector", config |-> merged,
                   validate_args |-> validate_args,
                   layers |-> build(merged)],
         defaults |-> defaults]

\* A stand-alone coupling layer, held the way a flow holds its layers.
Standalone(layer) ==
    [kind |-> "CouplingBijector", config |-> <<>>,
     validate_args |-> layer.validate_args, layers |-> <<layer>>]

\* The state of a pass over the layers: the value piped so far, the names of
\* the layers applied (order), every layer's input followed by the last
\* output (hs), the layers' log-det-Jacobians (ldjs) and their running sum.
\* For the log-det passes also the accumulator's shape (sum_shape) and, for
\* every accumulation step, the shapes its assert compares (shapes).
StartPass(v, env) ==
    [status |-> "ok", value |-> v, env |-> env, order |-> <<>>,
     hs |-> <<v>>, ldjs |-> <<>>, sum |-> R(0), pending |-> "ok",
     sum_shape |-> <<>>, shapes |-> <<>>]

\* The shape of a layer's log-det-Jacobian at input v:
\* tf.reduce_sum(scale, axis=tuple(range(1, len(x.shape)))), scale being
\* mask * scale_fn(masked) of the shape of v.
CouplingLogDetShape(v) ==
    reduce_sum_shape(TensorShape(v), AxesAfterBatch(TensorShape(v)))

\* assert (sum_log_det_jacobians.shape.as_list()
\*         == log_det_jacobian.shape.as_list())
ShapesAgree(acc, v) == acc.sum_shape = CouplingLogDetShape(v)

Compared(acc, v) ==
    Append(acc.shapes, [sum |-> acc.sum_shape, ldj |-> CouplingLogDetShape(v)])

FailPass(acc, error, layer, env) ==
    [acc EXCEPT !.status = error, !.value = <<>>, !.env = env,
                !.order = Append(acc.order, layer.name)]

\* out = layer.forward(out, **condition_kwargs)
ForwardStep(layer, acc, kwargs, fresh) ==
    LET r == CouplingForward(layer, acc.value, kwargs, acc.env, fresh)
    IN  IF r.status # "ok" THEN FailPass(acc, r.status, layer, r.env)
        ELSE [acc EXCEPT !.value = r.value, !.env = r.env,
                         !.order = Append(acc.order, layer.name),
                         !.hs = Append(acc.hs, r.value)]

\* out = layer.inverse(out, **condition_kwargs)
InverseStep(layer, acc, kwargs, fresh) ==
    LET r == CouplingInverse(layer, acc.value, kwargs, acc.env, fresh)
    IN  IF r.status # "ok" THEN FailPass(acc, r.status, layer, r.env)
        ELSE [acc EXCEPT !.value = r.value, !.env = r.env,
                         !.order = Append(acc.order, layer.name),
                         !.hs = Append(acc.hs, r.value)]

\* ForwardLogDetStep taking every layer's log-det-Jacobian at the flow's
\* input instead of the layer's own input.
ForwardLogDetStep_AtFlowInput(layer, acc, kwargs, fresh) ==
    IF acc.pending # "ok"
    THEN [acc EXCEPT !.status = acc.pending, !.value = <<>>]
    ELSE LET v == acc.hs[Len(acc.hs)]
             l == CouplingForwardLogDetJacobian(layer, acc.hs[1], kwargs,
                                                acc.env, fresh)
             r == CouplingForward(layer, v, kwargs, l.env, fresh)
         IN  IF l.status # "ok" THEN FailPass(acc, l.status, layer, l.env)
             ELSE IF r.status \in {"NotImplementedError", "TypeError"}
             THEN FailPass(acc, r.status, layer, r.env)
             ELSE IF ~ShapesAgree(acc, v)
             THEN [FailPass(acc, "AssertionError", layer, r.env)
                      EXCEPT !.shapes = Compared(acc, v)]
             ELSE [acc EXCEPT !.sum = Add(acc.sum, l.value),
                              !.shapes = Compared(acc, v),
                              !.value = Add(acc.sum, l.value),
                              !.env = r.env,
                              !.order = Append(acc.order, layer.name),
                              !.hs = Append(acc.hs, r.value),
                              !.ldjs = Append(acc.ldjs, l.value),
                              !.pending = r.status]

\* log_det_jacobian = layer.forward_log_det_jacobian(out, ...)
\* out = layer.forward(out, ...)
\* sum_log_det_jacobians += log_det_jacobian
\* The loop builds the graph and the returned sum is what is evaluated: a
\* NotImplementedError or TypeError is raised by the call itself, while a
\* failing check_numerics of a layer's forward ends the evaluation only when
\* the next layer consumes its output (acc.pending).
ForwardLogDetStep(layer, acc, kwargs, fresh) ==
    IF acc.pending # "ok"
    THEN [acc EXCEPT !.status = acc.pending, !.value = <<>>]
    ELSE LET v == acc.hs[Len(acc.hs)]
             l == CouplingForwardLogDetJacobian(layer, v, kwargs, acc.env,
                                                fresh)
             r == CouplingForward(layer, v, kwargs, l.env, fresh)
         IN  IF l.status # "ok" THEN FailPass(acc, l.status, layer, l.env)
             ELSE IF r.status \in {"NotImplementedError", "TypeError"}
             THEN FailPass(acc, r.status, layer, r.env)
             ELSE IF ~ShapesAgree(acc, v)
             THEN [FailPass(acc, "AssertionError", layer, r.env)
                      EXCEPT !.shapes = Compared(acc, v)]
             ELSE [acc EXCEPT !.sum = Add(acc.sum, l.value),
                              !.shapes = Compared(acc, v),
                              !.value = Add(acc.sum, l.value),
                              !.env = r.env,
                              !.order = Append(acc.order, layer.name),
                              !.hs = Append(acc.hs, r.value),
                              !.ldjs = Append(acc.ldjs, l.value),
                              !.pending = r.status]

\* log_det_jacobian = layer.inverse_log_det_jacobian(out, ...)
\* out = layer.inverse(out, ...)
\* sum_log_det_jacobians += log_det_jacobian
InverseLogDetStep(layer, acc, kwargs, fresh) ==
    LET v == acc.hs[Len(acc.hs)]
        l == CouplingInverseLogDetJacobian(layer, v, kwargs, acc.env, fresh)
        r == CouplingInverse(layer, v, kwargs, l.env, fresh)
    IN  IF l.status # "ok" THEN FailPass(acc, l.status, layer, l.env)
        ELSE IF r.status # "ok" THEN FailPass(acc, r.status, layer, r.env)
        ELSE IF ~ShapesAgree(acc, v)
        THEN [FailPass(acc, "AssertionError", layer, r.env)
                 EXCEPT !.shapes = Compared(acc, v)]
        ELSE [acc EXCEPT !.sum = Add(acc.sum, l.value),
                         !.shapes = Compared(acc, v),
                         !.value = Add(acc.sum, l.value),
                         !.env = r.env,
                         !.order = Append(acc.order, layer.name),
                         !.hs = Append(acc.hs, r.value),
                         !.ldjs = Append(acc.ldjs, l.value)]

\* StartLogDet with an accumulator that is tf.zeros_like(x) not summed
\* over its axes.
StartLogDet_NotReduced(v, env) ==
    [StartPass(v, env) EXCEPT
        !.value = reduce_sum([i \in 1..Len(v) |-> R(0)]),
        !.sum = reduce_sum([i \in 1..Len(v) |-> R(0)]),
        !.sum_shape = TensorShape(v)]

\* sum_log_det_jacobians = tf.reduce_sum(tf.zeros_like(x), axis=...)
StartLogDet(v, env) ==
    [StartPass(v, env) EXCEPT
        !.value = reduce_sum([i \in 1..Len(v) |-> R(0)]),
        !.sum = reduce_sum([i \in 1..Len(v) |-> R(0)]),
        !.sum_shape = reduce_sum_shape(TensorShape(v),
                                       AxesAfterBatch(TensorShape(v)))]

NotImplemented(v, env) ==
    [StartPass(v, env) EXCEPT !.status = "NotImplementedError", !.value = <<>>]

\* TRUE when both networks of the layer have been evaluated at the input
\* that v and the keywords make.
Known(layer, v, kwargs, env) ==
    LET key == <<layer.name, Masked(layer, v) \o kwargs>>
    IN  key \in DOMAIN env.scale /\ key \in DOMAIN env.translation

\* NetOutputs for networks whose output has width d (the width of their
\* input tensor): the two entries repeated along the coordinates.
NetOutputsOfWidth(d) ==
    {[scale |-> [i \in 1..d |-> o.scale[((i - 1) % 2) + 1]],
      translation |-> [i \in 1..d |-> o.translation[((i - 1) % 2) + 1]]] :
        o \in NetOutputs}

\* The values the layer's networks may take at that input: any of
\* NetOutputsOfWidth where a network is evaluated there for the first time.
FreshFor(layer, v, kwargs, env) ==
    IF Known(layer, v, kwargs, env)
    THEN {CHOOSE o \in NetOutputs : TRUE}
    ELSE NetOutputsOfWidth(Len(v))

\* The loops over the layers; each yields the set of outcomes of the pass,
\* one for every choice of the networks' values at fresh inputs.
RECURSIVE ForwardLoop(_, _, _, _)
ForwardLoop(ls, i, acc, kwargs) ==
    IF i > Len(ls) \/ acc.status # "ok" THEN {acc}
    ELSE UNION {ForwardLoop(ls, i + 1, next, kwargs) :
                next \in {ForwardStep(ls[i], acc, kwargs, f) :
                             f \in FreshFor(ls[i], acc.hs[Len(acc.hs)],
                                            kwargs, acc.env)}}

RECURSIVE InverseLoop(_, _, _, _)
InverseLoop(ls, i, acc, kwargs) ==
    IF i > Len(ls) \/ acc.status # "ok" THEN {acc}
    ELSE UNION {InverseLoop(ls, i + 1, next, kwargs) :
                next \in {InverseStep(ls[i], acc, kwargs, f) :
                             f \in FreshFor(ls[i], acc.hs[Len(acc.hs)],
                                            kwargs, acc.env)}}

RECURSIVE ForwardLogDetLoop(_, _, _, _)
ForwardLogDetLoop(ls, i, acc, kwargs) ==
    IF i > Len(ls) \/ acc.status # "ok" THEN {acc}
    ELSE UNION {ForwardLogDetLoop(ls, i + 1, next, kwargs) :
                next \in {ForwardLogDetStep(ls[i], acc, kwargs, f) :
                             f \in FreshFor(ls[i], acc.hs[Len(acc.hs)],
                                            kwargs, acc.env)}}

RECURSIVE InverseLogDetLoop(_, _, _, _)
InverseLogDetLoop(ls, i, acc, kwargs) ==
    IF i > Len(ls) \/ acc.status # "ok" THEN {acc}
    ELSE UNION {InverseLogDetLoop(ls, i + 1, next, kwargs) :
                next \in {InverseLogDetStep(ls[i], acc, kwargs, f) :
                             f \in FreshFor(ls[i], acc.hs[Len(acc.hs)],
                                            kwargs, acc.env)}}

RealNVPForward(self, v, kwargs, env) ==
    IF maybe_assert_valid_x(self, v).status # "ok"
    THEN {NotImplemented(v, env)}
    ELSE ForwardLoop(self.layers, 1, StartPass(v, env), kwargs)

RealNVPForwardLogDetJacobian(self, v, kwargs, env) ==
    IF maybe_assert_valid_x(self, v).status # "ok"
    THEN {NotImplemented(v, env)}
    ELSE ForwardLogDetLoop(self.layers, 1, StartLogDet(v, env), kwargs)

\* RealNVPInverse walking the layers in list order.
RealNVPInverse_NotReversed(self, v, kwargs, env) ==
    IF maybe_assert_valid_y(self, v).status # "ok"
    THEN {NotImplemented(v, env)}
    ELSE InverseLoop(self.layers, 1, StartPass(v, env), kwargs)

RealNVPInverse(self, v, kwargs, env) ==
    IF maybe_assert_valid_y(self, v).status # "ok"
    THEN {NotImplemented(v, env)}
    ELSE InverseLoop(Reverse(self.layers), 1, StartPass(v, env), kwargs)

RealNVPInverseLogDetJacobian(self, v, kwargs, env) ==
    IF maybe_assert_valid_y(self, v).status # "ok"
    THEN {NotImplemented(v, env)}
    ELSE InverseLogDetLoop(Reverse(self.layers), 1, StartLogDet(v, env),
                           kwargs)

---------------------------------------------------------------------------
(* The callers' interface: the four operations of the bijector under test, *)
(* each the set of its possible outcomes.                                  *)

AsPass(r, layer, v) ==
    [status |-> r.status, value |-> r.value, env |-> r.env,
     order |-> <<layer.name>>, hs |-> <<v>>, ldjs |-> <<>>,
     sum |-> R(0), pending |-> "ok", sum_shape |-> <<>>, shapes |-> <<>>]

forward(self, v, kwargs, env) ==
    IF self.kind = "RealNVPBijector" THEN RealNVPForward(self, v, kwargs, env)
    ELSE {AsPass(CouplingForward(self.layers[1], v, kwargs, env, f),
                 self.layers[1], v) :
          f \in FreshFor(self.layers[1], v, kwargs, env)}

forward_log_det_jacobian(self, v, kwargs, env) ==
    IF self.kind = "RealNVPBijector"
    THEN RealNVPForwardLogDetJacobian(self, v, kwargs, env)
    ELSE {AsPass(CouplingForwardLogDetJacobian(self.layers[1], v, kwargs,
                                               env, f),
                 self.layers[1], v) :
          f \in FreshFor(self.layers[1], v, kwargs, env)}

inverse(self, v, kwargs, env) ==
    IF self.kind = "RealNVPBijector" THEN RealNVPInverse(self, v, kwargs, env)
    ELSE {AsPass(CouplingInverse(self.layers[1], v, kwargs, env, f),
                 self.layers[1], v) :
          f \in FreshFor(self.layers[1], v, kwargs, env)}

inverse_log_det_jacobian(self, v, kwargs, env) ==
    IF self.kind = "RealNVPBijector"
    THEN RealNVPInverseLogDetJacobian(self, v, kwargs, env)
    ELSE {AsPass(CouplingInverseLogDetJacobian(self.layers[1], v, kwargs,
                                               env, f),
                 self.layers[1], v) :
          f \in FreshFor(self.layers[1], v, kwargs, env)}

NotCalled ==
    [called |-> FALSE, arg |-> <<>>, status |-> "none", value |-> <<>>,
     order |-> <<>>, hs |-> <<>>, ldjs |-> <<>>, shapes |-> <<>>]

Outcome(arg, r) ==
    [called |-> TRUE, arg |-> arg, status |-> r.status, value |-> r.value,
     order |-> r.order, hs |-> r.hs, ldjs |-> r.ldjs, shapes |-> r.shapes]

Env == [scale |-> scale_net, translation |-> translation_net]

\* The argument of the inverse operations: the output of forward(x), or x
\* itself when forward(x) returned none.
InverseArg == IF fwd.status = "ok" THEN fwd.value ELSE x

---------------------------------------------------------------------------
(* The state machine: a bijector is constructed, then each of its four     *)
(* operations is called once, the inverse ones after forward.              *)

Init ==
    /\ bijector \in
          {Standalone(CouplingBijector(p, "callable", "callable", v,
                                       "coupling_bijector")) :
              p \in Parities, v \in BOOLEAN}
          \cup {RealNVPBijector(c, v) : c \in Configs, v \in BOOLEAN}
    /\ x \in Inputs
    /\ condition_kwargs \in Conditions
    /\ scale_net = <<>>
    /\ translation_net = <<>>
    /\ fwd = NotCalled
    /\ fldj = NotCalled
    /\ inv = NotCalled
    /\ ildj = NotCalled
    /\ default_config = DEFAULT_CONFIG
    /\ flows = <<>>
    /\ masks = <<>>

CallForward ==
    /\ ~fwd.called
    /\ \E r \in forward(bijector, x, condition_kwargs, Env) :
          /\ fwd' = Outcome(x, r)
          /\ scale_net' = r.env.scale
          /\ translation_net' = r.env.translation
    /\ UNCHANGED <<bijector, x, condition_kwargs, fldj, inv, ildj>>
    /\ UNCHANGED <<default_config, flows, masks>>

CallForwardLogDetJacobian ==
    /\ ~fldj.called
    /\ \E r \in forward_log_det_jacobian(bijector, x, condition_kwargs, Env) :
          /\ fldj' = Outcome(x, r)
          /\ scale_net' = r.env.scale
          /\ translation_net' = r.env.translation
    /\ UNCHANGED <<bijector, x, condition_kwargs, fwd, inv, ildj>>
    /\ UNCHANGED <<default_config, flows, masks>>

CallInverse ==
    /\ fwd.called
    /\ ~inv.called
    /\ \E r \in inverse(bijector, InverseArg, condition_kwargs, Env) :
          /\ inv' = Outcome(InverseArg, r)
          /\ scale_net' = r.env.scale
          /\ translation_net' = r.env.translation
    /\ UNCHANGED <<bijector, x, condition_kwargs, fwd, fldj, ildj>>
    /\ UNCHANGED <<default_config, flows, masks>>

CallInverseLogDetJacobian ==
    /\ fwd.called
    /\ ~ildj.called
    /\ \E r \in inverse_log_det_jacobian(bijector, InverseArg,
                                         condition_kwargs, Env) :
          /\ ildj' = Outcome(InverseArg, r)
          /\ scale_net' = r.env.scale
          /\ translation_net' = r.env.translation
    /\ UNCHANGED <<bijector, x, condition_kwargs, fwd, fldj, inv>>
    /\ UNCHANGED <<default_config, flows, masks>>

Next ==
    \/ CallForward
    \/ CallForwardLogDetJacobian
    \/ CallInverse
    \/ CallInverseLogDetJacobian

Spec == Init /\ [][Next]_vars

---------------------------------------------------------------------------
(* A stand-alone coupling layer on inputs of every even width: get_mask is *)
(* called on it (MaskSpec), or its four operations are (WideSpec).         *)

\* Two inputs of every even width up to 2 * MaxHalfWidth.
WideInputs ==
    UNION {{[i \in 1..(2 * h) |-> R(i)], [i \in 1..(2 * h) |-> R(3 - 2 * i)]} :
              h \in 1..MaxHalfWidth}

InitWide ==
    /\ bijector \in
          {Standalone(CouplingBijector(p, "callable", "callable", FALSE,
                                       "coupling_bijector")) :
              p \in Parities}
    /\ x \in WideInputs
    /\ condition_kwargs \in Conditions
    /\ scale_net = <<>>
    /\ translation_net = <<>>
    /\ fwd = NotCalled
    /\ fldj = NotCalled
    /\ inv = NotCalled
    /\ ildj = NotCalled
    /\ default_config = DEFAULT_CONFIG
    /\ flows = <<>>
    /\ masks = <<>>

\* mask = self.get_mask(v, dtype=v.dtype), for any input v.
CallGetMask ==
    /\ Len(masks) < MaxMaskCalls
    /\ \E v \in WideInputs :
          masks' = Append(masks, [arg |-> v,
                                  mask |-> get_mask(bijector.layers[1], v)])
    /\ UNCHANGED <<bijector, x, condition_kwargs, scale_net, translation_net,
                   fwd, fldj, inv, ildj, default_config, flows>>

\* get_mask called any number of times on the layer.
NextMask == CallGetMask

MaskSpec == InitWide /\ [][NextMask]_vars

\* The four operations called on the layer.
WideSpec == InitWide /\ [][Next]_vars

---------------------------------------------------------------------------
(* Constructions: the module is loaded and a first flow constructed, then  *)
(* further flows are constructed, each with any partial config.            *)

InitConfig ==
    /\ \E c \in PartialConfigs :
          LET r == Construct(DEFAULT_CONFIG, c, FALSE)
          IN  /\ bijector = r.flow
              /\ flows = <<[supplied |-> c, flow |-> r.flow]>>
              /\ default_config = r.defaults
    /\ x = <<R(1), R(2)>>
    /\ condition_kwargs = <<>>
    /\ scale_net = <<>>
    /\ translation_net = <<>>
    /\ fwd = NotCalled
    /\ fldj = NotCalled
    /\ inv = NotCalled
    /\ ildj = NotCalled
    /\ masks = <<>>

ConstructFlow ==
    /\ Len(flows) < MaxFlows
    /\ \E c \in PartialConfigs :
          LET r == Construct(default_config, c, FALSE)
          IN  /\ bijector' = r.flow
              /\ flows' = Append(flows, [supplied |-> c, flow |-> r.flow])
              /\ default_config' = r.defaults
    /\ UNCHANGED <<x, condition_kwargs, scale_net, translation_net,
                   fwd, fldj, inv, ildj, masks>>

NextConfig == ConstructFlow

ConfigSpec == InitConfig /\ [][NextConfig]_vars

---------------------------------------------------------------------------
(* What the claims are stated with: the networks' values read back from    *)
(* scale_net and translation_net.                                          *)

IsFlow == bijector.kind = "RealNVPBijector"
Layers == bijector.layers
NumLayers == Len(bijector.layers)
LayerNames == [k \in 1..NumLayers |-> Layers[k].name]
AnyOutput == CHOOSE o \in NetOutputs : TRUE

\* The masked scale and translation of layer k at input v.
ScaleAt(k, v) == CouplingScale(Layers[k], v, condition_kwargs, Env, AnyOutput)
TranslationAt(k, v) ==
    CouplingTranslation(Layers[k], v, condition_kwargs, Env, AnyOutput)

\* A number of the exact range: finite, and as a scale neither overflowing
\* nor underflowing tf.exp.
InRange(s) ==
    /\ IsFinite(s)
    /\ s[1] < FloatMaxExp * s[2]
    /\ s[1] > FloatMinExp * s[2]

AllFinite(v) == \A i \in 1..Len(v) : IsFinite(v[i])

\* Exact arithmetic along a pass whose layer inputs are hs: every scale and
\* translation value met is a real number that tf.exp maps exactly.
ExactPass(hs) ==
    \A k \in 1..NumLayers :
        /\ Known(Layers[k], hs[k], condition_kwargs, Env)
        /\ \A i \in 1..Len(hs[k]) : InRange(ScaleAt(k, hs[k])[i])
        /\ AllFinite(TranslationAt(k, hs[k]))

\* layer_k.forward(v) and layer_k.inverse(v).
LayerForward(k, v) ==
    CouplingForward(Layers[k], v, condition_kwargs, Env, AnyOutput).value
LayerInverse(k, v) ==
    CouplingInverse(Layers[k], v, condition_kwargs, Env, AnyOutput).value

\* h(k) = layer_k.forward(h(k-1)), h(0) = v.
RECURSIVE ForwardThrough(_, _)
ForwardThrough(k, v) ==
    IF k = 0 THEN v ELSE LayerForward(k, ForwardThrough(k - 1, v))

\* layer_k.inverse(layer_(k+1).inverse(... layer_N.inverse(v))).
RECURSIVE InverseThrough(_, _)
InverseThrough(k, v) ==
    IF k > NumLayers THEN v ELSE LayerInverse(k, InverseThrough(k + 1, v))

---------------------------------------------------------------------------
(* The claims.                                                             *)

\* C1: in exact arithmetic, for a flow of any number of layers, any
\* conditioning and any width-2 input x whose forward(x) returned,
\* inverse(forward(x)) is x.
C1_Invertibility ==
    (IsFlow /\ fwd.status = "ok" /\ inv.called /\ ExactPass(fwd.hs))
        => (inv.status = "ok" /\ inv.arg = fwd.value /\ inv.value = x)

\* C1 witness: a two-layer flow took x to a different y and back.
C1_Witness ==
    /\ IsFlow /\ NumLayers = 2
    /\ fwd.status = "ok" /\ inv.status = "ok" /\ ExactPass(fwd.hs)
    /\ fwd.hs[2] # x /\ fwd.value # fwd.hs[2]
    /\ inv.value = x

\* C2: for a flow of any number of layers, any conditioning and any x, in
\* exact arithmetic (every exp on the way is exact, none overflows or
\* underflows), forward_log_det_jacobian(x) +
\* inverse_log_det_jacobian(forward(x)) = 0.
C2_JacobianConsistency ==
    (IsFlow /\ fwd.status = "ok" /\ fldj.status = "ok" /\ ildj.called
            /\ ExactPass(fwd.hs))
        => (/\ ildj.status = "ok"
            /\ ildj.arg = fwd.value
            /\ Add(fldj.value, ildj.value) = R(0))

\* C2 witness: a two-layer flow with a non-zero forward log-det.
C2_Witness ==
    /\ IsFlow /\ NumLayers = 2
    /\ fwd.status = "ok" /\ fldj.status = "ok" /\ ildj.status = "ok"
    /\ ExactPass(fwd.hs)
    /\ fldj.value # R(0)
    /\ ildj.value = Neg(fldj.value)

\* C3: forward applies the layers in list order, each to the previous
\* layer's output, and inverse applies their inverses in the reverse order;
\* for two layers forward(x) = layer2.forward(layer1.forward(x)) and
\* inverse(y) = layer1.inverse(layer2.inverse(y)).
C3_CompositionOrder ==
    IsFlow =>
        /\ fwd.status = "ok" =>
              /\ fwd.order = LayerNames
              /\ fwd.value = ForwardThrough(NumLayers, x)
              /\ NumLayers = 2 =>
                    fwd.value = LayerForward(2, LayerForward(1, x))
        /\ inv.status = "ok" =>
              /\ inv.order = Reverse(LayerNames)
              /\ inv.value = InverseThrough(1, inv.arg)
              /\ NumLayers = 2 =>
                    inv.value = LayerInverse(1, LayerInverse(2, inv.arg))

\* C3 witness: a two-layer flow ran forward and inverse, and both layers
\* changed the value on the way.
C3_Witness ==
    /\ IsFlow /\ NumLayers = 2
    /\ fwd.status = "ok" /\ inv.status = "ok"
    /\ fwd.order = <<"coupling_1", "coupling_2">>
    /\ inv.order = <<"coupling_2", "coupling_1">>
    /\ fwd.hs[2] # x /\ fwd.value # fwd.hs[2]
    /\ inv.hs[2] # inv.arg /\ inv.value # inv.hs[2]

\* C4 as stated: layer i of a built flow has parity "even" when i is odd
\* and "odd" when i is even, the first layer being "even".
C4_AsStated ==
    IsFlow =>
        \A i \in 1..NumLayers :
            Layers[i].parity = (IF i % 2 = 1 THEN "even" ELSE "odd")

\* C4 amended: build makes num_coupling_layers layers, and layer i has
\* parity "odd" when i is odd and "even" when i is even: the parities
\* alternate, starting at "odd" for layer 1.
C4_ParityAlternation ==
    IsFlow =>
        /\ NumLayers = bijector.config.num_coupling_layers
        /\ \A i \in 1..NumLayers :
              Layers[i].parity = (IF i % 2 = 1 THEN "odd" ELSE "even")

\* C4 witness: a built flow of two layers or more, "odd" then "even".
C4_Witness ==
    /\ IsFlow /\ NumLayers >= 2
    /\ Layers[1].parity = "odd" /\ Layers[2].parity = "even"

\* Of a stand-alone coupling layer: the index of the coordinate it leaves
\* unchanged (x[:, 0] is index 1), the one it transforms, and the network
\* input made of v with the transformed coordinate zeroed.
Kept == IF Layers[1].parity = "even" THEN 1 ELSE 2
Moved == 3 - Kept
ZeroedKey(v) ==
    <<Layers[1].name, [v EXCEPT ![Moved] = R(0)] \o condition_kwargs>>

\* C5: a coupling layer's forward on a width-2 input leaves the coordinate
\* of its parity unchanged and maps the other one to x * exp(s) + t, s and t
\* being the networks' outputs at the unchanged index for the input with the
\* transformed coordinate zeroed; scale ln 2 and translation 0 with parity
\* "even" take [1, 2] to [1, 4], zero scale and translation give x.
C5_CouplingForward ==
    (~IsFlow /\ fwd.status = "ok") =>
        /\ ZeroedKey(x) \in DOMAIN scale_net
        /\ ZeroedKey(x) \in DOMAIN translation_net
        /\ LET s == scale_net[ZeroedKey(x)][Kept]
               t == translation_net[ZeroedKey(x)][Kept]
           IN  /\ Len(fwd.value) = 2
               /\ fwd.value[Kept] = x[Kept]
               /\ fwd.value[Moved] = Add(Mul(x[Moved], Exp(s)), t)
               /\ (Kept = 1 /\ x = <<R(1), R(2)>> /\ s = R(1) /\ t = R(0))
                     => fwd.value = <<R(1), R(4)>>
               /\ (s = R(0) /\ t = R(0)) => fwd.value = x

\* C5 witness: parity "even", scale ln 2, translation 0: [1, 2] became [1, 4].
C5_Witness ==
    /\ ~IsFlow /\ Layers[1].parity = "even"
    /\ x = <<R(1), R(2)>>
    /\ fwd.status = "ok" /\ fwd.value = <<R(1), R(4)>>
    /\ scale_net[ZeroedKey(x)][1] = R(1)

\* Values put at the transformed coordinate.
Variations == {R(0), R(9), <<1, 2>>}

\* C6: a coupling layer's forward log-det is the sum of the masked scale
\* values; with a real-valued scale network that is exactly the scale s that
\* forward exponentiates, and it is the same whatever the transformed
\* coordinate of x is.
C6_CouplingLogDet ==
    (~IsFlow /\ fldj.status = "ok") =>
        /\ ZeroedKey(x) \in DOMAIN scale_net
        /\ LET raw == scale_net[ZeroedKey(x)]
               m == IF Kept = 1 THEN <<R(1), R(0)>> ELSE <<R(0), R(1)>>
           IN  /\ fldj.value = Add(Mul(m[1], raw[1]), Mul(m[2], raw[2]))
               /\ AllFinite(raw) =>
                     /\ fldj.value = raw[Kept]
                     /\ fwd.status = "ok" =>
                           fwd.value[Moved] =
                               Add(Mul(x[Moved], Exp(fldj.value)),
                                   translation_net[ZeroedKey(x)][Kept])
                     /\ \A w \in Variations, o \in NetOutputs :
                           CouplingForwardLogDetJacobian(Layers[1],
                               [x EXCEPT ![Moved] = w], condition_kwargs,
                               Env, o).value = fldj.value

\* C6 witness: a stand-alone layer with a non-zero finite scale, both of its
\* forward operations called.
C6_Witness ==
    /\ ~IsFlow /\ fldj.status = "ok" /\ fwd.status = "ok"
    /\ AllFinite(scale_net[ZeroedKey(x)])
    /\ fldj.value # R(0)
    /\ fldj.value = scale_net[ZeroedKey(x)][Kept]
    /\ scale_net[ZeroedKey(x)][Moved] # R(0)

\* layer_k.forward_log_det_jacobian(v) and its inverse counterpart.
LayerForwardLogDet(k, v) ==
    CouplingForwardLogDetJacobian(Layers[k], v, condition_kwargs, Env,
                                  AnyOutput).value
LayerInverseLogDet(k, v) ==
    CouplingInverseLogDetJacobian(Layers[k], v, condition_kwargs, Env,
                                  AnyOutput).value

\* 0 + sum over j = 1..k of layer j's forward log-det at h(j-1).
RECURSIVE SumForward(_)
SumForward(k) ==
    IF k = 0 THEN R(0)
    ELSE Add(SumForward(k - 1),
             LayerForwardLogDet(k, ForwardThrough(k - 1, x)))

\* 0 + sum over j = N..k of layer j's inverse log-det at the value the
\* reverse pass has when it reaches layer j.
RECURSIVE SumInverse(_, _)
SumInverse(k, v) ==
    IF k > NumLayers THEN R(0)
    ELSE Add(SumInverse(k + 1, v),
             LayerInverseLogDet(k, InverseThrough(k + 1, v)))

\* C7: the flow's forward log-det starts at zero and adds, for k = 1..N,
\* layer k's forward log-det at h(k-1), the layer's own input; the inverse
\* log-det likewise adds each layer's inverse log-det at the intermediate
\* value of the reverse pass.
C7_LogDetAccumulation ==
    IsFlow =>
        /\ fldj.status = "ok" =>
              /\ Len(fldj.ldjs) = NumLayers
              /\ \A k \in 1..NumLayers :
                    fldj.ldjs[k] =
                        LayerForwardLogDet(k, ForwardThrough(k - 1, x))
              /\ fldj.value = SumForward(NumLayers)
        /\ ildj.status = "ok" =>
              /\ Len(ildj.ldjs) = NumLayers
              /\ \A k \in 1..NumLayers :
                    ildj.ldjs[NumLayers + 1 - k] =
                        LayerInverseLogDet(k, InverseThrough(k + 1, ildj.arg))
              /\ ildj.value = SumInverse(1, ildj.arg)

\* C7 witness: a two-layer flow whose first layer changed the value and
\* whose layers both contributed a non-zero log-det, in both directions.
C7_Witness ==
    /\ IsFlow /\ NumLayers = 2
    /\ fldj.status = "ok" /\ ildj.status = "ok"
    /\ fldj.hs[2] # x
    /\ fldj.ldjs[1] # R(0) /\ fldj.ldjs[2] # R(0)
    /\ ildj.ldjs[1] # R(0) /\ ildj.ldjs[2] # R(0)
    /\ fldj.value = Add(fldj.ldjs[1], fldj.ldjs[2])

\* TRUE when the tensor holds a NaN or an Inf.
HasNanOrInf(v) == \E i \in 1..Len(v) : v[i] \in {NaN, PosInf, NegInf}

\* exp(scale) of the j-th layer forward(x) entered, at that layer's input.
ExpScaleOfForward(j) ==
    [i \in 1..Len(fwd.hs[j]) |-> Exp(ScaleAt(j, fwd.hs[j])[i])]

\* C8: whenever exp(scale) of a layer holds a NaN or an Inf during forward,
\* forward ends in the numeric error at that layer: it returns no output and
\* that layer is the last one applied; the error has no other cause.
C8_NumericGuard ==
    (fwd.called /\ fwd.status \notin {"NotImplementedError", "TypeError"}) =>
        /\ \A j \in 1..Len(fwd.order) :
              HasNanOrInf(ExpScaleOfForward(j)) =>
                  /\ fwd.status = "InvalidArgumentError"
                  /\ fwd.value = <<>>
                  /\ j = Len(fwd.order)
        /\ fwd.status = "InvalidArgumentError" =>
              HasNanOrInf(ExpScaleOfForward(Len(fwd.order)))

\* C8 witness: the first layer of a two-layer flow met an Inf in exp(scale);
\* forward raised and the second layer was never applied.
C8_Witness ==
    /\ IsFlow /\ NumLayers = 2
    /\ fwd.status = "InvalidArgumentError"
    /\ fwd.order = <<"coupling_1">>
    /\ PosInf \in {ExpScaleOfForward(1)[i] : i \in 1..2}

\* C9: with validate_args false the hooks return their argument and no
\* operation raises the not-implemented error; with validate_args true each
\* of the four operations raises it, returns nothing, and no network and no
\* layer of a flow has been evaluated.
C9_ValidationHooks ==
    /\ ~bijector.validate_args =>
          /\ maybe_assert_valid_x(bijector, x) = [status |-> "ok", value |-> x]
          /\ maybe_assert_valid_y(bijector, x) = [status |-> "ok", value |-> x]
          /\ fwd.status # "NotImplementedError"
          /\ fldj.status # "NotImplementedError"
          /\ inv.status # "NotImplementedError"
          /\ ildj.status # "NotImplementedError"
    /\ bijector.validate_args =>
          /\ fwd.called =>
                fwd.status = "NotImplementedError" /\ fwd.value = <<>>
          /\ fldj.called =>
                fldj.status = "NotImplementedError" /\ fldj.value = <<>>
          /\ inv.called =>
                inv.status = "NotImplementedError" /\ inv.value = <<>>
          /\ ildj.called =>
                ildj.status = "NotImplementedError" /\ ildj.value = <<>>
          /\ scale_net = <<>> /\ translation_net = <<>>
          /\ IsFlow => (fwd.order = <<>> /\ fldj.order = <<>>
                        /\ inv.order = <<>> /\ ildj.order = <<>>)

\* C9 witness: all four operations of a validating flow were called.
C9_Witness ==
    /\ IsFlow /\ bijector.validate_args
    /\ fwd.status = "NotImplementedError"
    /\ fldj.status = "NotImplementedError"
    /\ inv.status = "NotImplementedError"
    /\ ildj.status = "NotImplementedError"

\* C10 as stated: each of the flow's four operations, called without a
\* conditioning vector, completes without error.
C10_AsStated ==
    (IsFlow /\ ~bijector.validate_args /\ condition_kwargs = <<>>) =>
        /\ fwd.called => fwd.status = "ok"
        /\ fldj.called => fldj.status = "ok"
        /\ inv.called => inv.status = "ok"
        /\ ildj.called => ildj.status = "ok"

\* C10 amended: the flow's four operations need the conditioning vector
\* (the keyword observations of the functions build makes): called without
\* it each raises TypeError before any network is evaluated and returns
\* nothing; called with it none raises TypeError.
C10_ConditioningRequired ==
    (IsFlow /\ ~bijector.validate_args) =>
        /\ condition_kwargs = <<>> =>
              /\ fwd.called => fwd.status = "TypeError" /\ fwd.value = <<>>
              /\ fldj.called => fldj.status = "TypeError" /\ fldj.value = <<>>
              /\ inv.called => inv.status = "TypeError" /\ inv.value = <<>>
              /\ ildj.called => ildj.status = "TypeError" /\ ildj.value = <<>>
              /\ scale_net = <<>> /\ translation_net = <<>>
        /\ condition_kwargs # <<>> =>
              /\ fwd.status # "TypeError" /\ fldj.status # "TypeError"
              /\ inv.status # "TypeError" /\ ildj.status # "TypeError"

\* C10 witness: all four operations of a flow were called without
\* conditioning.
C10_Witness ==
    /\ IsFlow /\ ~bijector.validate_args /\ condition_kwargs = <<>>
    /\ fwd.status = "TypeError" /\ fldj.status = "TypeError"
    /\ inv.status = "TypeError" /\ ildj.status = "TypeError"

\* The defaults the options are said to have.
StatedDefaults ==
    [num_coupling_layers |-> 2, translation_hidden_sizes |-> <<25>>,
     scale_hidden_sizes |-> <<25>>, scale_regularization |-> 500]

\* C11: after any sequence of constructions with partial configs, every
\* flow's effective config has exactly the four options, each with the value
\* the caller supplied or, where omitted, its default (2 layers, hidden
\* sizes a single-element sequence, the same for scale and translation,
\* regularization 500); the flow is built from it; and DEFAULT_CONFIG is
\* what it was when the module was loaded.
C11_ConfigMerging ==
    /\ default_config = StatedDefaults
    /\ Len(StatedDefaults.translation_hidden_sizes) = 1
    /\ StatedDefaults.scale_hidden_sizes
          = StatedDefaults.translation_hidden_sizes
    /\ \A k \in 1..Len(flows) :
          LET given == flows[k].supplied
              config == flows[k].flow.config
          IN  /\ DOMAIN config = DOMAIN StatedDefaults
              /\ \A o \in DOMAIN config :
                    config[o] = IF o \in DOMAIN given THEN given[o]
                                ELSE StatedDefaults[o]
              /\ Len(flows[k].flow.layers) = config.num_coupling_layers

\* C11 witness: a flow constructed with every option supplied, then one
\* with the layers supplied only, which has the other defaults.
C11_Witness ==
    /\ Len(flows) = 2
    /\ flows[1].supplied = Supplied
    /\ DOMAIN flows[2].supplied = {"num_coupling_layers"}
    /\ flows[2].flow.config.num_coupling_layers = 1
    /\ flows[2].flow.config.scale_regularization = 500
    /\ flows[2].flow.config.scale_hidden_sizes = <<25>>

\* C12: for every even length D and every parity, the mask get_mask returns
\* has length D and alternates: parity "even" selects exactly the indices
\* 0, 2, 4, ... (here 1, 3, 5, ...), parity "odd" exactly the others, so the
\* masks of the two parities are disjoint and cover all D indices; the
\* mask is the same on every call, whatever the values of the input.
C12_MaskPattern ==
    \A k \in 1..Len(masks) :
        LET d == Len(masks[k].arg)
            mask == masks[k].mask
            parity == bijector.layers[1].parity
            other == checkerboard(<<d>>, IF parity = "even" THEN "odd"
                                         ELSE "even")
        IN  /\ Len(mask) = d
            /\ \A i \in 1..d :
                  /\ mask[i] \in {R(0), R(1)}
                  /\ (mask[i] = R(1))
                        <=> (((i - 1) % 2 = 0) = (parity = "even"))
                  /\ (mask[i] = R(1)) <=> (other[i] = R(0))
            /\ \A j \in 1..Len(masks) :
                  Len(masks[j].arg) = d => masks[j].mask = mask

\* C12 witness: two calls with different inputs of width 4 returned the
\* same alternating mask.
C12_Witness ==
    /\ Len(masks) = 2
    /\ Len(masks[1].arg) = 4 /\ Len(masks[2].arg) = 4
    /\ masks[1].arg # masks[2].arg
    /\ masks[1].mask = masks[2].mask
    /\ masks[1].mask \in {<<R(1), R(0), R(1), R(0)>>,
                           <<R(0), R(1), R(0), R(1)>>}

\* C13: in the flow's forward and inverse log-det computations, at every
\* accumulation step the accumulator's shape equals the shape of the layer's
\* log-det-Jacobian, one scalar per batch element, so the shape assertion
\* never fails; a computation that returns has accumulated every layer.
C13_AccumulatorShape ==
    IsFlow =>
        \A op \in {fldj, ildj} :
            /\ op.status # "AssertionError"
            /\ \A k \in 1..Len(op.shapes) :
                  /\ op.shapes[k].sum = op.shapes[k].ldj
                  /\ op.shapes[k].ldj = <<1>>
            /\ op.status = "ok" => Len(op.shapes) = NumLayers

\* C13 witness: both log-det computations of a two-layer flow returned,
\* each after two accumulation steps.
C13_Witness ==
    /\ IsFlow /\ NumLayers = 2
    /\ fldj.status = "ok" /\ ildj.status = "ok"
    /\ Len(fldj.shapes) = 2 /\ Len(ildj.shapes) = 2
    /\ fldj.shapes[2] = [sum |-> <<1>>, ldj |-> <<1>>]

\* TRUE when the layer's forward transforms coordinate i of v rather than
\* passing it through: with networks returning scale ln 2 and translation 1
\* everywhere, the coordinate comes out as 2 * v[i] + 1.
Transforms(layer, v, i) ==
    LET everywhere ==
            [scale |-> [j \in 1..Len(v) |-> R(1)],
             translation |-> [j \in 1..Len(v) |-> R(1)]]
        out == CouplingForward(layer, v, <<R(0)>>,
                               [scale |-> <<>>, translation |-> <<>>],
                               everywhere)
    IN  /\ out.status = "ok"
        /\ i \in 1..Len(out.value)
        /\ out.value[i] = Add(Mul(v[i], R(2)), R(1))
        /\ out.value[i] # v[i]

\* The coordinates of x that some layer among the first n transforms.
Covered(n) ==
    {i \in 1..Len(x) : \E k \in 1..n : Transforms(Layers[k], x, i)}

\* C14 as stated: in every flow that is built, whatever the number of
\* layers, every coordinate of the input is transformed by some layer.
C14_AsStated ==
    IsFlow => Covered(NumLayers) = 1..Len(x)

\* C14 amended: in every flow built with two layers or more every
\* coordinate of the input is transformed by some layer, and a forward pass
\* that returns has applied such a layer to each; a flow of one layer
\* transforms coordinate 0 only.
C14_FullCoverage ==
    IsFlow =>
        /\ NumLayers >= 2 =>
              /\ Covered(NumLayers) = 1..Len(x)
              /\ fwd.status = "ok" => Covered(Len(fwd.order)) = 1..Len(x)
        /\ NumLayers = 1 => Covered(NumLayers) = {1}

\* C14 witness: a forward pass of a two-layer flow changed both
\* coordinates.
C14_Witness ==
    /\ IsFlow /\ NumLayers = 2
    /\ fwd.status = "ok"
    /\ Covered(NumLayers) = {1, 2}
    /\ fwd.value[1] # x[1] /\ fwd.value[2] # x[2]

\* TRUE when out is v with every coordinate the layer's mask selects
\* unchanged, every other coordinate present, and no coordinate dropped.
KeepsWidthAndMasked(v, out) ==
    /\ Len(out) = Len(v)
    /\ \A i \in 1..Len(v) :
          get_mask(Layers[1], v)[i] = R(1) => out[i] = v[i]

\* C15: for every even width D >= 2 a coupling layer's forward and inverse
\* return an output of the width D of their input, in which every coordinate
\* the mask selects is unchanged and the others are transformed; no
\* coordinate of the input is dropped.
C15_AsStated ==
    ~IsFlow =>
        /\ fwd.status = "ok" => KeepsWidthAndMasked(fwd.arg, fwd.value)
        /\ inv.status = "ok" => KeepsWidthAndMasked(inv.arg, inv.value)

\* TRUE when exp(scale) or exp(-scale) of the stand-alone layer at input v
\* holds a NaN or an Inf.
NonFiniteExp(v) ==
    \/ HasNanOrInf([i \in 1..Len(v) |-> Exp(ScaleAt(1, v)[i])])
    \/ HasNanOrInf([i \in 1..Len(v) |-> Exp(Neg(ScaleAt(1, v)[i]))])

\* TRUE when the operation with outcome op got past its validation hook and
\* its networks' arguments.
Computed(op) ==
    op.called /\ op.status \notin {"NotImplementedError", "TypeError"}

\* TRUE when the operation with outcome op did not end in the numeric error
\* and, where it computed, returned a result.
Unguarded(op) ==
    /\ op.status # "InvalidArgumentError"
    /\ Computed(op) => op.status = "ok" /\ op.value # <<>>

\* C16: a coupling layer's inverse, forward_log_det_jacobian and
\* inverse_log_det_jacobian never raise the numeric error: where they
\* compute, they return a result, also at a scale whose exp(scale) or
\* exp(-scale) is NaN or Inf; the layer's forward is the one operation
\* that raises it, and only at a NaN or an Inf in exp(scale).
C16_GuardForwardOnly ==
    ~IsFlow =>
        /\ Unguarded(inv)
        /\ Unguarded(fldj)
        /\ Unguarded(ildj)
        /\ fwd.status = "InvalidArgumentError" =>
              HasNanOrInf(ExpScaleOfForward(1))

\* C16 witness: at one input of a stand-alone layer exp(scale) holds a NaN
\* or an Inf; forward raised the numeric error, and inverse and both
\* log-det-Jacobians returned a result at that same input.
C16_Witness ==
    /\ ~IsFlow
    /\ fwd.status = "InvalidArgumentError"
    /\ inv.status = "ok" /\ inv.arg = x
    /\ fldj.status = "ok" /\ ildj.status = "ok" /\ ildj.arg = x
    /\ NonFiniteExp(x)

====
